---------------------------- MODULE Spec2Model ----------------------------
(***************************************************************************)
(* Model of the CPIDebugLocal transport codecs.                            *)
(*                                                                         *)
(*   contiva-encoder.js  encodeContivaData / decodeContivaData             *)
(*                       (JSON -> ZIP -> gzip -> base64 -> percent)        *)
(*   groovy-server.js    decodeGroovyString   (Node, raw deflate variant)  *)
(*   the Groovy server   decodeGroovyData     (JVM,  raw deflate variant)  *)
(*                                                                         *)
(* Text is a sequence of one-character strings, binary data a sequence of  *)
(* bytes 0..255.  The runtime primitives the code calls (Buffer base64,    *)
(* java.util.Base64, encodeURIComponent, zlib) are modelled by what they   *)
(* do on the data; the compressed formats are reduced to their framing     *)
(* (magic, header fields, stored block, checksum, length).                 *)
(***************************************************************************)
EXTENDS Integers, Sequences, FiniteSets, TLC

VARIABLES
    now,          \* wall clock read by new Date() / gzip when not pinned
    contivaData,  \* per call: argument of encodeContivaData
    calledAt,     \* per call: wall-clock time at which the call ran
    encPc,        \* per call: position of the call ("idle", "piping", "ended", "threw")
    pending,      \* per call: chunks the archive has still to push through output
    zipBuffer,    \* per call: bytes accumulated by output.on('data')
    delivered,    \* per call: the chunks output has emitted as 'data', in order of arrival
    promise,      \* per call: the promise returned by encodeContivaData
    zipDec,       \* last run of decodeContivaData (its locals and outcome)
    doc,          \* deflate variant: the document behind the transport string
    groovyDec,    \* deflate variant: per decoder and wire form, the run's locals and outcome
    normIn,       \* normalizer: the string handed to the URL-safe -> standard conversion
    normOut,      \* normalizer: results of applying the conversion once and twice
    request,      \* server: the HTTP request being handled and the handler's position
    responses,    \* server: the responses sent for the request, in order
    saved,        \* server: the calls of saveDecodedData, in order
    chrome        \* server: the transport strings exec was started with, in order

vars == <<now, contivaData, calledAt, encPc, pending, zipBuffer, delivered, promise, zipDec,
          doc, groovyDec, normIn, normOut, request, responses, saved, chrome>>

encVars == <<now, contivaData, calledAt, encPc, pending, zipBuffer, delivered, promise, zipDec>>
groovyVars == <<doc, groovyDec>>
normVars == <<normIn, normOut>>
serverVars == <<request, responses, saved, chrome>>

-----------------------------------------------------------------------------
(* Bounds of the model *)

MaxNow == 1          \* wall-clock values 0..MaxNow
MaxNormLen == 5      \* longest string handed to the normalizer

-----------------------------------------------------------------------------
(* Sequences *)

RECURSIVE Flatten(_)
Flatten(ss) ==
    IF Len(ss) = 0 THEN <<>>
    ELSE IF Len(ss) = 1 THEN ss[1]
    ELSE Flatten(SubSeq(ss, 1, Len(ss) \div 2))
             \o Flatten(SubSeq(ss, (Len(ss) \div 2) + 1, Len(ss)))

Repeat(c, n) == [i \in 1..n |-> c]

Range(s) == {s[i] : i \in 1..Len(s)}

IndexIn(tab, c) == CHOOSE i \in 1..Len(tab) : tab[i] = c

Take(s, n) == SubSeq(s, 1, IF n < Len(s) THEN n ELSE Len(s))
Drop(s, n) == SubSeq(s, n + 1, Len(s))

RECURSIVE SumBytes(_)
SumBytes(bs) ==
    IF Len(bs) = 0 THEN 0
    ELSE IF Len(bs) = 1 THEN bs[1] % 256
    ELSE (SumBytes(SubSeq(bs, 1, Len(bs) \div 2))
             + SumBytes(SubSeq(bs, (Len(bs) \div 2) + 1, Len(bs)))) % 256

-----------------------------------------------------------------------------
(* Characters: printable ASCII, codes 32..126 (code 96, the grave accent,   *)
(* is written "grave": the lexer has no literal for it)                    *)

Ascii ==
    <<" ", "!", "\"", "#", "$", "%", "&", "'", "(", ")", "*", "+", ",", "-", ".", "/",
      "0", "1", "2", "3", "4", "5", "6", "7", "8", "9", ":", ";", "<", "=", ">", "?",
      "@", "A", "B", "C", "D", "E", "F", "G", "H", "I", "J", "K", "L", "M", "N", "O",
      "P", "Q", "R", "S", "T", "U", "V", "W", "X", "Y", "Z", "[", "\\", "]", "^", "_",
      "grave", "a", "b", "c", "d", "e", "f", "g", "h", "i", "j", "k", "l", "m", "n", "o",
      "p", "q", "r", "s", "t", "u", "v", "w", "x", "y", "z", "{", "|", "}", "~">>

CharCode(c) == 31 + IndexIn(Ascii, c)
FromCharCode(n) == Ascii[n - 31]
IsPrintable(n) == n >= 32 /\ n <= 126

Utf8Bytes(text) == [i \in 1..Len(text) |-> CharCode(text[i])]

HexDigits == <<"0", "1", "2", "3", "4", "5", "6", "7", "8", "9", "A", "B", "C", "D", "E", "F">>
HexLower == <<"0", "1", "2", "3", "4", "5", "6", "7", "8", "9", "a", "b", "c", "d", "e", "f">>
IsHex(c) == c \in Range(HexDigits) \/ c \in Range(HexLower)
HexVal(c) == IF c \in Range(HexDigits) THEN IndexIn(HexDigits, c) - 1
             ELSE IndexIn(HexLower, c) - 1

-----------------------------------------------------------------------------
(* Base64 alphabets *)

B64Std ==
    <<"A", "B", "C", "D", "E", "F", "G", "H", "I", "J", "K", "L", "M", "N", "O", "P",
      "Q", "R", "S", "T", "U", "V", "W", "X", "Y", "Z", "a", "b", "c", "d", "e", "f",
      "g", "h", "i", "j", "k", "l", "m", "n", "o", "p", "q", "r", "s", "t", "u", "v",
      "w", "x", "y", "z", "0", "1", "2", "3", "4", "5", "6", "7", "8", "9", "+", "/">>

StdChars == Range(B64Std)

Sextet(c) == IndexIn(B64Std, c) - 1

(* The sextets of a byte sequence: sextet k (from 0) starts at bit 6k. *)
ByteAt(bs, i) == IF i <= Len(bs) THEN bs[i] ELSE 0
SextetOfBytes(bs, k) ==
    LET b == 3 * (k \div 4)
    IN  CASE k % 4 = 0 -> ByteAt(bs, b + 1) \div 4
          [] k % 4 = 1 -> (ByteAt(bs, b + 1) % 4) * 16 + (ByteAt(bs, b + 2) \div 16)
          [] k % 4 = 2 -> (ByteAt(bs, b + 2) % 16) * 4 + (ByteAt(bs, b + 3) \div 64)
          [] k % 4 = 3 -> ByteAt(bs, b + 3) % 64

(* Buffer.prototype.toString('base64'): standard alphabet, '=' padded to   *)
(* whole units of four characters.                                         *)
toStringBase64(bs) ==
    LET sextets == (Len(bs) * 8 + 5) \div 6
        units == (Len(bs) + 2) \div 3
    IN  [k \in 1..(4 * units) |->
            IF k <= sextets THEN B64Std[SextetOfBytes(bs, k - 1) + 1] ELSE "="]

(* Bytes of a run of sextets: 4 sextets give 3 bytes, a rest of 3 gives 2  *)
(* bytes, a rest of 2 gives 1 byte, a rest of 1 gives nothing.             *)
SextetsToBytes(q) ==
    LET g(j) == 4 * ((j - 1) \div 3)
    IN  [j \in 1..((Len(q) * 6) \div 8) |->
            CASE (j - 1) % 3 = 0 -> q[g(j) + 1] * 4 + (q[g(j) + 2] \div 16)
              [] (j - 1) % 3 = 1 -> (q[g(j) + 2] % 16) * 16 + (q[g(j) + 3] \div 4)
              [] (j - 1) % 3 = 2 -> (q[g(j) + 3] % 4) * 64 + q[g(j) + 4]]

FirstIndex(s, c) ==
    IF c \in Range(s)
    THEN CHOOSE i \in 1..Len(s) : s[i] = c /\ \A j \in 1..(i - 1) : s[j] # c
    ELSE Len(s) + 1

(* The sextets Node reads from a base64 string: both alphabets are legal   *)
(* ('-' is 62, '_' is 63), any other character is skipped, and the first   *)
(* '=' stops the decoding.                                                 *)
NodeSextets(s) ==
    LET body == SubSeq(s, 1, FirstIndex(s, "=") - 1)
    IN  Flatten([i \in 1..Len(body) |->
            IF body[i] \in StdChars THEN <<Sextet(body[i])>>
            ELSE IF body[i] = "-" THEN <<62>>
            ELSE IF body[i] = "_" THEN <<63>>
            ELSE <<>>])

(* Buffer.from(s, 'base64'): never throws. *)
BufferFromBase64(s) == SextetsToBytes(NodeSextets(s))

(* java.util.Base64.getDecoder().decode(String): the basic decoder.  It    *)
(* throws IllegalArgumentException on a character outside the standard     *)
(* alphabet, on a wrong ending unit ("=" after 0 or 2 sextets without its  *)
(* second "="), on a dangling single sextet and on input after the padding.*)
Ok(v) == [ok |-> TRUE, val |-> v]
Threw == [ok |-> FALSE, val |-> <<>>]

JavaSextets(s) ==
    LET body == SubSeq(s, 1, FirstIndex(s, "=") - 1)
        ending == Drop(s, Len(body))
        inUnit == Len(body) % 4      \* sextets read in the last, open unit
    IN  IF \E i \in 1..Len(body) : body[i] \notin StdChars THEN Threw
        ELSE IF inUnit = 1 THEN Threw
        ELSE IF ending = <<>> THEN Ok([i \in 1..Len(body) |-> Sextet(body[i])])
        ELSE IF inUnit = 2 /\ ending = <<"=", "=">> THEN Ok([i \in 1..Len(body) |-> Sextet(body[i])])
        ELSE IF inUnit = 3 /\ ending = <<"=">> THEN Ok([i \in 1..Len(body) |-> Sextet(body[i])])
        ELSE Threw

JavaBase64Decode(s) ==
    LET q == JavaSextets(s)
    IN  IF q.ok THEN Ok(SextetsToBytes(q.val)) ELSE Threw

-----------------------------------------------------------------------------
(* Padding / alphabet normalizer *)

(* Mutation of paddingNeeded: the outer modulo is dropped. *)
paddingNeededNoOuterMod(len) == 4 - (len % 4)

paddingNeeded(len) == (4 - (len % 4)) % 4

(* Mutation of replaceUrlSafe: the two replacements are crossed. *)
replaceUrlSafeCrossed(s) ==
    [i \in 1..Len(s) |-> IF s[i] = "-" THEN "/" ELSE IF s[i] = "_" THEN "+" ELSE s[i]]

(* Mutation of replaceUrlSafe: String.replace with a string pattern, which *)
(* replaces the first occurrence only.                                     *)
replaceUrlSafeFirstOnly(s) ==
    LET t1 == [i \in 1..Len(s) |-> IF i = FirstIndex(s, "-") THEN "+" ELSE s[i]]
    IN  [i \in 1..Len(t1) |-> IF i = FirstIndex(t1, "_") THEN "/" ELSE t1[i]]

replaceUrlSafe(s) ==
    [i \in 1..Len(s) |-> IF s[i] = "-" THEN "+" ELSE IF s[i] = "_" THEN "/" ELSE s[i]]

addPadding(s) == s \o Repeat("=", paddingNeeded(Len(s)))

toStandardBase64(s) == addPadding(replaceUrlSafe(s))

-----------------------------------------------------------------------------
(* Percent-encoding *)

UriUnreserved ==
    {Ascii[i] : i \in 17..26} \cup {Ascii[i] : i \in 34..59} \cup {Ascii[i] : i \in 66..91}
    \cup {"-", "_", ".", "!", "~", "*", "'", "(", ")"}

UriReserved == {";", "/", "?", ":", "@", "&", "=", "+", "$", ",", "#"}

PercentEscape(c) ==
    <<"%", HexDigits[(CharCode(c) \div 16) + 1], HexDigits[(CharCode(c) % 16) + 1]>>

(* Mutation of encodeURIComponent: encodeURI, which leaves the reserved    *)
(* characters (among them '+', '/', '=') as they are.                      *)
encodeURI(s) ==
    Flatten([i \in 1..Len(s) |->
        IF s[i] \in UriUnreserved \cup UriReserved THEN <<s[i]>> ELSE PercentEscape(s[i])])

encodeURIComponent(s) ==
    Flatten([i \in 1..Len(s) |->
        IF s[i] \in UriUnreserved THEN <<s[i]>> ELSE PercentEscape(s[i])])

IsEscapeAt(s, i) == i >= 1 /\ i + 2 <= Len(s) /\ s[i] = "%" /\ IsHex(s[i + 1]) /\ IsHex(s[i + 2])
EscapeCode(s, i) == HexVal(s[i + 1]) * 16 + HexVal(s[i + 2])
IsLeadAt(s, i) == IsEscapeAt(s, i) /\ EscapeCode(s, i) >= 194 /\ EscapeCode(s, i) <= 223
IsContinuationAt(s, i) ==
    IsEscapeAt(s, i) /\ EscapeCode(s, i) >= 128 /\ EscapeCode(s, i) <= 191

(* decodeURIComponent: "%XX" becomes the character of code XX; a '%' not   *)
(* followed by two hex digits, or an escape that is not part of valid      *)
(* UTF-8, throws URIError.  Codes below 32 and 127 become "ctl", a two-    *)
(* byte UTF-8 sequence becomes "nonascii"; longer sequences are not        *)
(* modelled and are not among the inputs.                                  *)
decodeURIComponent(s) ==
    LET bad(i) ==
            /\ s[i] = "%"
            /\ \/ ~IsEscapeAt(s, i)
               \/ /\ EscapeCode(s, i) >= 128
                  /\ ~(IsLeadAt(s, i) /\ IsContinuationAt(s, i + 3))
                  /\ ~(IsContinuationAt(s, i) /\ IsLeadAt(s, i - 3))
        out(i) ==
            IF s[i] = "%" THEN
                IF EscapeCode(s, i) < 128 THEN
                    <<IF IsPrintable(EscapeCode(s, i)) THEN FromCharCode(EscapeCode(s, i))
                      ELSE "ctl">>
                ELSE IF IsLeadAt(s, i) THEN <<"nonascii">> ELSE <<>>
            ELSE IF (i >= 2 /\ s[i - 1] = "%") \/ (i >= 3 /\ s[i - 2] = "%") THEN <<>>
            ELSE <<s[i]>>
    IN  IF \E i \in 1..Len(s) : bad(i) THEN Threw
        ELSE Ok(Flatten([i \in 1..Len(s) |-> out(i)]))

-----------------------------------------------------------------------------
(* Compression framing.  Deflate is modelled by its stored-block form: a   *)
(* block is BFINAL, LEN and its complement NLEN (two bytes each, low byte  *)
(* first), followed by LEN bytes.                                          *)

StoredHeader(final, len) ==
    <<final, len % 256, len \div 256, 255 - (len % 256), 255 - (len \div 256)>>

RECURSIVE deflateRaw(_)
deflateRaw(bs) ==
    IF Len(bs) <= 65535 THEN StoredHeader(1, Len(bs)) \o bs
    ELSE StoredHeader(0, 65535) \o Take(bs, 65535) \o deflateRaw(Drop(bs, 65535))

StoredLen(bs) == bs[2] + 256 * bs[3]
StoredHeaderValid(bs) ==
    /\ bs[1] \in {0, 1}
    /\ bs[4] = 255 - bs[2]
    /\ bs[5] = 255 - bs[3]

Inflated(v, n) == [ok |-> TRUE, val |-> v, used |-> n]
InflateThrew == [ok |-> FALSE, val |-> <<>>, used |-> 0]

(* Inflate of a raw deflate stream: fails on a truncated stream, on an     *)
(* unknown block header and on a length that does not match its            *)
(* complement; bytes after the final block are left unread.                *)
RECURSIVE inflateRaw(_)
inflateRaw(bs) ==
    IF Len(bs) < 5 THEN InflateThrew
    ELSE IF ~StoredHeaderValid(bs) THEN InflateThrew
    ELSE IF Len(bs) < 5 + StoredLen(bs) THEN InflateThrew
    ELSE IF bs[1] = 1 THEN Inflated(SubSeq(bs, 6, 5 + StoredLen(bs)), 5 + StoredLen(bs))
    ELSE LET rest == inflateRaw(Drop(bs, 5 + StoredLen(bs)))
         IN  IF rest.ok
             THEN Inflated(SubSeq(bs, 6, 5 + StoredLen(bs)) \o rest.val,
                           5 + StoredLen(bs) + rest.used)
             ELSE InflateThrew

LE32(n) == <<n % 256, (n \div 256) % 256, (n \div 65536) % 256, (n \div 16777216) % 256>>

(* gzip container: magic 1f 8b, method 8, no flags, MTIME, XFL, OS, the    *)
(* deflate stream, then a checksum and the length of the data (one byte    *)
(* each here, standing for CRC32 and ISIZE).                               *)
gzipSync(bs, mtime) ==
    <<31, 139, 8, 0>> \o LE32(mtime) \o <<0, 3>> \o deflateRaw(bs)
        \o <<SumBytes(bs), Len(bs) % 256>>

gunzipSync(bs) ==
    IF Len(bs) < 10 THEN Threw
    ELSE IF <<bs[1], bs[2], bs[3], bs[4]>> # <<31, 139, 8, 0>> THEN Threw
    ELSE LET body == inflateRaw(Drop(bs, 10))
             trailer == Drop(bs, 10 + body.used)
         IN  IF ~body.ok THEN Threw
             ELSE IF Len(trailer) < 2 THEN Threw
             ELSE IF trailer[1] # SumBytes(body.val) THEN Threw
             ELSE IF trailer[2] # Len(body.val) % 256 THEN Threw
             ELSE Ok(body.val)

(* The errors the runtime throws, as a caller sees them: the name of the   *)
(* error class, the code property (set by zlib only) and the message.      *)
NoError == [name |-> "", code |-> "", message |-> ""]

(* decodeURIComponent throws URIError. *)
URIError == [name |-> "URIError", code |-> "", message |-> "URI malformed"]

zlibError(code, message) == [name |-> "Error", code |-> code, message |-> message]

(* The error of a failed inflate: the stream ends early, or a block header *)
(* is invalid.                                                             *)
RECURSIVE inflateError(_)
inflateError(bs) ==
    IF Len(bs) < 5 THEN zlibError("Z_BUF_ERROR", "unexpected end of file")
    ELSE IF bs[1] \notin {0, 1} THEN zlibError("Z_DATA_ERROR", "invalid block type")
    ELSE IF ~StoredHeaderValid(bs)
    THEN zlibError("Z_DATA_ERROR", "invalid stored block lengths")
    ELSE IF Len(bs) < 5 + StoredLen(bs)
    THEN zlibError("Z_BUF_ERROR", "unexpected end of file")
    ELSE inflateError(Drop(bs, 5 + StoredLen(bs)))

(* The error of a failed gunzipSync. *)
gunzipError(bs) ==
    IF Len(bs) >= 4 /\ <<bs[1], bs[2], bs[3], bs[4]>> # <<31, 139, 8, 0>>
    THEN zlibError("Z_DATA_ERROR", "incorrect header check")
    ELSE IF Len(bs) < 10 THEN zlibError("Z_BUF_ERROR", "unexpected end of file")
    ELSE LET body == inflateRaw(Drop(bs, 10))
             trailer == Drop(bs, 10 + body.used)
         IN  IF ~body.ok THEN inflateError(Drop(bs, 10))
             ELSE IF Len(trailer) < 2
             THEN zlibError("Z_BUF_ERROR", "unexpected end of file")
             ELSE IF trailer[1] # SumBytes(body.val)
             THEN zlibError("Z_DATA_ERROR", "incorrect data check")
             ELSE zlibError("Z_DATA_ERROR", "incorrect length check")

-----------------------------------------------------------------------------
(* JSON.  A payload is [kind, fields]: an object with members in           *)
(* insertion order, the value null, the value undefined, or an object with *)
(* a cycle.  A member is <<key, text>> for a string and                    *)
(* <<key, members, "object">> for an object.                               *)

Str(key, text) == <<key, text>>
Nested(key, fields) == <<key, fields, "object">>
IsNested(member) == Len(member) = 3

JsonString(text) ==
    <<"\"">> \o Flatten([i \in 1..Len(text) |->
                  IF text[i] = "\"" THEN <<"\\", "\"">>
                  ELSE IF text[i] = "\\" THEN <<"\\", "\\">>
                  ELSE IF text[i] = "\n" THEN <<"\\", "n">>
                  ELSE <<text[i]>>]) \o <<"\"">>

RECURSIVE JsonMembers(_)
JsonMembers(fields) ==
    IF fields = <<>> THEN <<>>
    ELSE JsonString(Head(fields)[1]) \o <<":">>
         \o (IF IsNested(Head(fields))
             THEN <<"{">> \o JsonMembers(Head(fields)[2]) \o <<"}">>
             ELSE JsonString(Head(fields)[2]))
         \o (IF Len(fields) > 1 THEN <<",">> ELSE <<>>) \o JsonMembers(Tail(fields))

(* JSON.stringify: throws on a cycle, returns undefined (not a string) for *)
(* undefined, and otherwise the text of the value.                         *)
StringifyThrows(value) == value.kind = "circular"
StringifyGivesUndefined(value) == value.kind = "undefined"
JSONstringify(value) ==
    IF value.kind = "null" THEN <<"n", "u", "l", "l">>
    ELSE <<"{">> \o JsonMembers(value.fields) \o <<"}">>

-----------------------------------------------------------------------------
(* ZIP archive of one entry, as archiver writes it: a local file header, *)
(* the deflated data with its descriptor, and the central directory.  The  *)
(* three parts are the chunks the archive pushes into the output stream.   *)

DosEpoch == 315532800      \* 1980-01-01T00:00:00Z in seconds since 1970
DosMinimum == 2162688      \* DOS date/time of 1980-01-01 00:00:00

(* compress-commons dateToDos: dates before 1980 are written as 1980-01-01 *)
dateToDos(date) == IF date < DosEpoch THEN DosMinimum ELSE DosMinimum + (date - DosEpoch)

zipLocalHeader(name, date) ==
    <<80, 75, 3, 4>> \o LE32(dateToDos(date)) \o <<Len(name)>> \o Utf8Bytes(name)

zipFileData(content) ==
    deflateRaw(content) \o <<SumBytes(content), Len(content) % 256>>

zipCentralDirectory(name, date) ==
    <<80, 75, 1, 2>> \o LE32(dateToDos(date)) \o <<Len(name)>> \o Utf8Bytes(name)
        \o <<80, 75, 5, 6, 1>>

zipChunks(name, content, date) ==
    <<zipLocalHeader(name, date), zipFileData(content), zipCentralDirectory(name, date)>>

-----------------------------------------------------------------------------
(* encodeContivaData (contiva-encoder.js) *)

Calls == {1, 2}

Obj(fields) == [kind |-> "object", fields |-> fields]

(* The payloads handed to the encoder: Contiva objects, undefined, and an  *)
(* object that refers to itself.                                           *)
Payloads ==
    { Obj(<<>>),
      Obj(<< <<<<"s">>, <<"a", "\"">>>> >>),
      Obj(<< <<<<"s">>, <<"~", "~">>>> >>),
      Obj(<< <<<<"f">>, <<"p", "D">>>>, <<<<"s">>, <<"~">>>> >>),
      [kind |-> "undefined", fields |-> <<>>],
      [kind |-> "circular", fields |-> <<>>] }

NoPayload == [kind |-> "none", fields |-> <<>>]

Pending == [state |-> "pending", value |-> <<>>]

(* resolve / reject of a promise: only the first settlement counts. *)
settle(p, state, value) ==
    IF p.state = "pending" THEN [state |-> state, value |-> value] ELSE p

EntryName == <<"d", "a", "t", "a", ".", "j", "s", "o", "n">>

(* Mutation of entryDate: the entry is stamped with the time of the call. *)
entryDateNow(clock) == clock

(* date: new Date(0) *)
entryDate(clock) == 0

(* Mutation of gzipMtime: the gzip header carries the time of compression. *)
gzipMtimeNow(clock) == clock

(* { mtime: 0 } *)
gzipMtime(clock) == 0

(* Steps 3-5 of the 'end' callback: gzip, base64, padding, percent-encode. *)
paddedBase64(zip, clock) ==
    LET compressed == gzipSync(zip, gzipMtime(clock))
        base64 == toStringBase64(compressed)
    IN  base64 \o Repeat("=", paddingNeeded(Len(base64)))

(* Mutation of urlEncode: encodeURI is used. *)
urlEncodeWithEncodeURI(base64) == encodeURI(base64)

urlEncode(base64) == encodeURIComponent(base64)

endCallback(zip, clock) == urlEncode(paddedBase64(zip, clock))

(* The call itself: the promise executor runs to the end.  JSON.stringify  *)
(* throwing, or returning undefined (jsonString.length then throws), is    *)
(* caught and rejects; otherwise the listeners are attached, the archive   *)
(* is piped into output, the entry appended and the archive finalized, so  *)
(* the chunks of the archive are waiting to flow.                          *)
encodeCall(c, data) ==
    /\ encPc[c] = "idle"
    /\ contivaData' = [contivaData EXCEPT ![c] = data]
    /\ calledAt' = [calledAt EXCEPT ![c] = now]
    /\ IF StringifyThrows(data) \/ StringifyGivesUndefined(data)
       THEN /\ promise' = [promise EXCEPT ![c] = settle(@, "rejected", <<>>)]
            /\ encPc' = [encPc EXCEPT ![c] = "threw"]
            /\ UNCHANGED pending
       ELSE /\ pending' = [pending EXCEPT ![c] =
                   zipChunks(EntryName, Utf8Bytes(JSONstringify(data)), entryDate(now))]
            /\ encPc' = [encPc EXCEPT ![c] = "piping"]
            /\ UNCHANGED promise
    /\ UNCHANGED <<now, zipBuffer, delivered>>

encodeContivaData(c, data) ==
    /\ encodeCall(c, data)
    /\ UNCHANGED <<zipDec, groovyVars, normVars, serverVars>>

(* Mutation of onData: the chunk is put in front of the buffer. *)
onDataPrepend(c) ==
    /\ encPc[c] = "piping"
    /\ pending[c] # <<>>
    /\ zipBuffer' = [zipBuffer EXCEPT ![c] = Head(pending[c]) \o @]
    /\ delivered' = [delivered EXCEPT ![c] = Append(@, Head(pending[c]))]
    /\ pending' = [pending EXCEPT ![c] = Tail(@)]
    /\ UNCHANGED <<now, contivaData, calledAt, encPc, promise, zipDec, groovyVars, normVars,
                   serverVars>>

(* Mutation of onData: zipBuffer is one variable of the module, shared by  *)
(* all calls.                                                              *)
onDataSharedBuffer(c) ==
    /\ encPc[c] = "piping"
    /\ pending[c] # <<>>
    /\ zipBuffer' = [k \in Calls |-> zipBuffer[k] \o Head(pending[c])]
    /\ delivered' = [delivered EXCEPT ![c] = Append(@, Head(pending[c]))]
    /\ pending' = [pending EXCEPT ![c] = Tail(@)]
    /\ UNCHANGED <<now, contivaData, calledAt, encPc, promise, zipDec, groovyVars, normVars,
                   serverVars>>

(* output.on('data'): the next chunk is appended to zipBuffer. *)
onData(c) ==
    /\ encPc[c] = "piping"
    /\ pending[c] # <<>>
    /\ zipBuffer' = [zipBuffer EXCEPT ![c] = @ \o Head(pending[c])]
    /\ delivered' = [delivered EXCEPT ![c] = Append(@, Head(pending[c]))]
    /\ pending' = [pending EXCEPT ![c] = Tail(@)]
    /\ UNCHANGED <<now, contivaData, calledAt, encPc, promise, zipDec, groovyVars, normVars,
                   serverVars>>

(* output.on('end'): fires once the archive has ended and every chunk it   *)
(* pushed has been delivered.                                              *)
onEnd(c) ==
    /\ encPc[c] = "piping"
    /\ pending[c] = <<>>
    /\ promise' = [promise EXCEPT ![c] =
                       settle(@, "resolved", endCallback(zipBuffer[c], now))]
    /\ encPc' = [encPc EXCEPT ![c] = "ended"]
    /\ UNCHANGED <<now, contivaData, calledAt, pending, zipBuffer, delivered, zipDec, groovyVars,
                   normVars, serverVars>>

(* Mutation of onArchiveError: the error is logged and not rejected. *)
onArchiveErrorLogsOnly(c) ==
    /\ encPc[c] = "piping"
    /\ pending[c] # <<>>
    /\ pending' = [pending EXCEPT ![c] = Tail(@)]
    /\ UNCHANGED <<now, contivaData, calledAt, encPc, zipBuffer, delivered, promise, zipDec,
                   groovyVars, normVars, serverVars>>

(* archive.on('error', reject): the part of the archive being written is   *)
(* lost; the archive goes on to finalize, so output still ends.            *)
onArchiveError(c) ==
    /\ encPc[c] = "piping"
    /\ pending[c] # <<>>
    /\ pending' = [pending EXCEPT ![c] = Tail(@)]
    /\ promise' = [promise EXCEPT ![c] = settle(@, "rejected", <<>>)]
    /\ UNCHANGED <<now, contivaData, calledAt, encPc, zipBuffer, delivered, zipDec, groovyVars,
                   normVars, serverVars>>

(* output.on('error', reject): the stream is destroyed, no event follows. *)
onOutputError(c) ==
    /\ encPc[c] = "piping"
    /\ promise' = [promise EXCEPT ![c] = settle(@, "rejected", <<>>)]
    /\ encPc' = [encPc EXCEPT ![c] = "destroyed"]
    /\ UNCHANGED <<now, contivaData, calledAt, pending, zipBuffer, delivered, zipDec, groovyVars,
                   normVars, serverVars>>

(* The wall clock advances. *)
Tick ==
    /\ now < DosEpoch + 1 + MaxNow
    /\ now' = now + 1
    /\ UNCHANGED <<contivaData, calledAt, encPc, pending, zipBuffer, delivered, promise, zipDec,
                   groovyVars, normVars, serverVars>>

-----------------------------------------------------------------------------
(* decodeContivaData (contiva-encoder.js) *)

StripPadding(s) ==
    IF s # <<>> /\ s[Len(s)] = "=" THEN
        IF Len(s) >= 2 /\ s[Len(s) - 1] = "=" THEN Take(s, Len(s) - 2) ELSE Take(s, Len(s) - 1)
    ELSE s

HasPadding(s) == s # <<>> /\ s[Len(s)] = "="

toUrlSafe(s) ==
    [i \in 1..Len(s) |-> IF s[i] = "+" THEN "-" ELSE IF s[i] = "/" THEN "_" ELSE s[i]]

ZipForms == {"encoded", "standard", "urlSafe", "urlSafeEscaped", "unpadded",
             "misplacedPad", "brokenEscape", "corruptGzip"}

(* The strings a client can send for the transport string ts that the      *)
(* encoder produced: ts itself, its base64 text unescaped, that text in    *)
(* the URL-safe alphabet (raw, and with '-', '_', '=' escaped), the text   *)
(* without its padding, with the padding one place too early, ts cut       *)
(* inside its last escape, and ts with its first character changed (the    *)
(* base64 text stays well formed, the gzip magic does not).                *)
ZipWire(form, ts) ==
    LET std == decodeURIComponent(ts).val
        bare == StripPadding(std)
    IN  CASE form = "encoded" -> ts
          [] form = "standard" -> std
          [] form = "urlSafe" -> toUrlSafe(std)
          [] form = "urlSafeEscaped" ->
                Flatten([i \in 1..Len(std) |->
                    IF toUrlSafe(std)[i] \in {"-", "_", "="}
                    THEN PercentEscape(toUrlSafe(std)[i]) ELSE <<std[i]>>])
          [] form = "unpadded" -> encodeURIComponent(bare)
          [] form = "misplacedPad" ->
                encodeURIComponent(Take(bare, Len(bare) - 1)
                    \o Repeat("=", Len(std) - Len(bare)) \o <<bare[Len(bare)]>>)
          [] form = "brokenEscape" -> Take(ts, Len(ts) - 1)
          [] form = "corruptGzip" -> <<"A">> \o Tail(ts)

NotRun ==
    [ran |-> FALSE, call |-> 0, form |-> "", encodedData |-> <<>>, decodedUrl |-> <<>>,
     standardBase64 |-> <<>>, buffer |-> <<>>, failedAt |-> "none", error |-> NoError,
     zipBuffer |-> <<>>]

(* Mutation of decodeContivaRun: the alphabet is replaced before the *)
(* percent-decoding.                                                       *)
decodeContivaRunReplaceFirst(c, form, encodedData) ==
    LET url == decodeURIComponent(replaceUrlSafe(encodedData))
        std == url.val
        buf == BufferFromBase64(std)
        unz == gunzipSync(buf)
        run == [NotRun EXCEPT !.ran = TRUE, !.call = c, !.form = form,
                              !.encodedData = encodedData]
    IN  IF ~url.ok THEN [run EXCEPT !.failedAt = "percent", !.error = URIError]
        ELSE IF ~unz.ok THEN
            [run EXCEPT !.decodedUrl = url.val, !.standardBase64 = std, !.buffer = buf,
                        !.failedAt = "gunzip", !.error = gunzipError(buf)]
        ELSE [run EXCEPT !.decodedUrl = url.val, !.standardBase64 = std, !.buffer = buf,
                         !.zipBuffer = unz.val]

(* Mutation of decodeContivaRun: the percent-decoding is left out. *)
decodeContivaRunNoPercent(c, form, encodedData) ==
    LET std == replaceUrlSafe(encodedData)
        buf == BufferFromBase64(std)
        unz == gunzipSync(buf)
        run == [NotRun EXCEPT !.ran = TRUE, !.call = c, !.form = form,
                              !.encodedData = encodedData]
    IN  IF ~unz.ok THEN
            [run EXCEPT !.decodedUrl = encodedData, !.standardBase64 = std, !.buffer = buf,
                        !.failedAt = "gunzip", !.error = gunzipError(buf)]
        ELSE [run EXCEPT !.decodedUrl = encodedData, !.standardBase64 = std, !.buffer = buf,
                         !.zipBuffer = unz.val]

(* One run of decodeContivaData: its locals, the stage that threw (if      *)
(* any) with the error the caller catches, and the zipBuffer it returns.   *)
(* Buffer.from never throws, so the stages that can fail are               *)
(* decodeURIComponent and gunzipSync; their errors are not caught or       *)
(* wrapped in decodeContivaData.                                           *)
decodeContivaRun(c, form, encodedData) ==
    LET url == decodeURIComponent(encodedData)
        std == replaceUrlSafe(url.val)
        buf == BufferFromBase64(std)
        unz == gunzipSync(buf)
        run == [NotRun EXCEPT !.ran = TRUE, !.call = c, !.form = form,
                              !.encodedData = encodedData]
    IN  IF ~url.ok THEN [run EXCEPT !.failedAt = "percent", !.error = URIError]
        ELSE IF ~unz.ok THEN
            [run EXCEPT !.decodedUrl = url.val, !.standardBase64 = std, !.buffer = buf,
                        !.failedAt = "gunzip", !.error = gunzipError(buf)]
        ELSE [run EXCEPT !.decodedUrl = url.val, !.standardBase64 = std, !.buffer = buf,
                         !.zipBuffer = unz.val]

(* decodeContivaData is called on a wire form of the string that call c    *)
(* resolved with.                                                          *)
decodeContivaData(c, form) ==
    /\ promise[c].state = "resolved"
    /\ form \in {"unpadded", "misplacedPad", "brokenEscape"}
          => HasPadding(decodeURIComponent(promise[c].value).val)
    /\ zipDec' = decodeContivaRun(c, form, ZipWire(form, promise[c].value))
    /\ UNCHANGED <<now, contivaData, calledAt, encPc, pending, zipBuffer, delivered, promise,
                   groovyVars, normVars, serverVars>>

-----------------------------------------------------------------------------
(* The Node server (groovy-server.js): documents and hard-coded data *)

(* const contivaData of GET /contiva/test *)
TestContivaData ==
    Obj(<< Str(<<"c", "u", "r", "r", "e", "n", "t", "S", "e", "s", "s", "i", "o", "n", "T", "y",
          "p", "e">>,
              <<"g", "r", "o", "o", "v", "y">>),
          Str(<<"s", "c", "r", "i", "p", "t", "I", "n", "p", "u", "t">>,
              <<"{", " ", "\"", "t", "e", "s", "t", "\"", ":", " ", "\"", "t", "e", "s",
                "t", "v", "a", "l", "3", "\"", " ", "}">>),
          Str(<<"s", "c", "r", "i", "p", "t">>,
              <<"i", "m", "p", "o", "r", "t", " ", "c", "o", "m", ".", "s", "a", "p", ".",
                "g", "a", "t", "e", "w", "a", "y", ".", "i", "p", ".", "c", "o", "r", "e",
                ".", "c", "u", "s", "t", "o", "m", "d", "e", "v", ".", "u", "t", "i", "l",
                ".", "M", "e", "s", "s", "a", "g", "e", ";", "\n", "\n", "d", "e", "f",
                " ", "M", "e", "s", "s", "a", "g", "e", " ", "p", "r", "o", "c", "e", "s",
                "s", "D", "a", "t", "a", "(", "M", "e", "s", "s", "a", "g", "e", " ", "m",
                "e", "s", "s", "a", "g", "e", ")", " ", "{", "\n", " ", " ", " ", " ", "r",
                "e", "t", "u", "r", "n", " ", "m", "e", "s", "s", "a", "g", "e", ";", "\n",
                "}">>),
          Str(<<"f", "u", "n", "c", "t", "i", "o", "n", "N", "a", "m", "e">>,
              <<"p", "r", "o", "c", "e", "s", "s", "D", "a", "t", "a">>),
          Nested(<<"h", "e", "a", "d", "e", "r", "s">>,
              << Str(<<"S", "A", "P", "_", "M", "e", "s", "s", "a", "g", "e", "P", "r", "o", "c", "e",
          "s", "s", "i", "n", "g", "L", "o", "g", "I", "D">>,
                     <<"A", "G", "l", "n", "w", "R", "P", "C", "O", "T", "1", "y", "6",
                       "H", "L", "E", "f", "k", "m", "H", "V", "D", "X", "W", "n", "n",
                       "u", "0">>),
                 Str(<<"S", "A", "P", "_", "T", "R", "A", "C", "E", "_", "H", "E", "A", "D", "E", "R",
          "_", "1", "7", "6", "8", "4", "0", "7", "3", "1", "6", "2", "0", "6", "_", "M",
          "e", "s", "s", "a", "g", "e", "T", "y", "p", "e">>,
                     <<"S", "T", "E", "P">>) >>),
          Nested(<<"p", "r", "o", "p", "e", "r", "t", "i", "e", "s">>,
              << Str(<<"A", "n", "o", "t", "h", "e", "r", "P", "r", "o", "p">>,
                     <<"c", "o", "n", "f", "1">>),
                 Str(<<"T", "e", "s", "t", "i", "n", "g", "P", "r", "o", "p">>,
                     <<"c", "o", "n", "f", "2">>) >>) >>)

(* const contivaData of GET /contiva/:data: the same object with the       *)
(* import line of the script commented out                                *)
HardcodedContivaData ==
    Obj(<< Str(<<"c", "u", "r", "r", "e", "n", "t", "S", "e", "s", "s", "i", "o", "n", "T", "y",
          "p", "e">>,
              <<"g", "r", "o", "o", "v", "y">>),
          Str(<<"s", "c", "r", "i", "p", "t", "I", "n", "p", "u", "t">>,
              <<"{", " ", "\"", "t", "e", "s", "t", "\"", ":", " ", "\"", "t", "e", "s",
                "t", "v", "a", "l", "3", "\"", " ", "}">>),
          Str(<<"s", "c", "r", "i", "p", "t">>,
              <<"/", "/", "i", "m", "p", "o", "r", "t", " ", "c", "o", "m", ".", "s", "a",
                "p", ".", "g", "a", "t", "e", "w", "a", "y", ".", "i", "p", ".", "c", "o",
                "r", "e", ".", "c", "u", "s", "t", "o", "m", "d", "e", "v", ".", "u", "t",
                "i", "l", ".", "M", "e", "s", "s", "a", "g", "e", ";", "\n", "\n", "d",
                "e", "f", " ", "M", "e", "s", "s", "a", "g", "e", " ", "p", "r", "o", "c",
                "e", "s", "s", "D", "a", "t", "a", "(", "M", "e", "s", "s", "a", "g", "e",
                " ", "m", "e", "s", "s", "a", "g", "e", ")", " ", "{", "\n", " ", " ", " ",
                " ", "r", "e", "t", "u", "r", "n", " ", "m", "e", "s", "s", "a", "g", "e",
                ";", "\n", "}">>),
          Str(<<"f", "u", "n", "c", "t", "i", "o", "n", "N", "a", "m", "e">>,
              <<"p", "r", "o", "c", "e", "s", "s", "D", "a", "t", "a">>),
          Nested(<<"h", "e", "a", "d", "e", "r", "s">>,
              << Str(<<"S", "A", "P", "_", "M", "e", "s", "s", "a", "g", "e", "P", "r", "o", "c", "e",
          "s", "s", "i", "n", "g", "L", "o", "g", "I", "D">>,
                     <<"A", "G", "l", "n", "w", "R", "P", "C", "O", "T", "1", "y", "6",
                       "H", "L", "E", "f", "k", "m", "H", "V", "D", "X", "W", "n", "n",
                       "u", "0">>),
                 Str(<<"S", "A", "P", "_", "T", "R", "A", "C", "E", "_", "H", "E", "A", "D", "E", "R",
          "_", "1", "7", "6", "8", "4", "0", "7", "3", "1", "6", "2", "0", "6", "_", "M",
          "e", "s", "s", "a", "g", "e", "T", "y", "p", "e">>,
                     <<"S", "T", "E", "P">>) >>),
          Nested(<<"p", "r", "o", "p", "e", "r", "t", "i", "e", "s">>,
              << Str(<<"A", "n", "o", "t", "h", "e", "r", "P", "r", "o", "p">>,
                     <<"c", "o", "n", "f", "1">>),
                 Str(<<"T", "e", "s", "t", "i", "n", "g", "P", "r", "o", "p">>,
                     <<"c", "o", "n", "f", "2">>) >>) >>)

(* CPIHelper documents: one with every field the conversion reads, one     *)
(* with the fields that have a default left out.                           *)
CpiHelperFull ==
    Obj(<< Nested(<<"i", "n", "p", "u", "t">>,
              << Str(<<"b", "o", "d", "y">>,
                     <<"b", "1">>),
                 Nested(<<"h", "e", "a", "d", "e", "r", "s">>,
                     << Str(<<"h">>,
                            <<"1">>) >>),
                 Nested(<<"p", "r", "o", "p", "e", "r", "t", "i", "e", "s">>,
                     << Str(<<"p">>,
                            <<"2">>) >>) >>),
          Nested(<<"s", "c", "r", "i", "p", "t">>,
              << Str(<<"c", "o", "d", "e">>,
                     <<"c", "1">>),
                 Str(<<"f", "u", "n", "c", "t", "i", "o", "n">>,
                     <<"f", "1">>) >>) >>)

CpiHelperBare ==
    Obj(<< Nested(<<"i", "n", "p", "u", "t">>,
              << Str(<<"b", "o", "d", "y">>,
                     <<"b", "2">>) >>),
          Nested(<<"s", "c", "r", "i", "p", "t">>,
              << Str(<<"c", "o", "d", "e">>,
                     <<"c", "2">>) >>) >>)

NullValue == [kind |-> "null", fields |-> <<>>]

(* The values a transport string sent to the server carries. *)
ServerDocs ==
    { CpiHelperFull, CpiHelperBare, Obj(<< Str(<<"s">>, <<"~", "~">>) >>), NullValue }

-----------------------------------------------------------------------------
(* Deflate variant: decodeGroovyString (groovy-server.js) and              *)
(* decodeGroovyData (the Groovy server)                                    *)

InflateBufferSize == 10240

Garbage == [kind |-> "garbage", fields |-> <<>>]

(* A document whose JSON text is 8 bytes longer than the output array of   *)
(* decodeGroovyData.                                                       *)
Oversized == Obj(<< <<<<"b">>, Repeat("a", InflateBufferSize)>> >>)

(* The documents a transport string of the deflate variant can carry, and  *)
(* a byte sequence that is no deflate stream.                              *)
GroovyDocs ==
    { Obj(<<>>),
      Obj(<< <<<<"b">>, <<"?", "?", "?">>>> >>),
      Obj(<< <<<<"s">>, <<"~", "~">>>> >>),
      Obj(<< <<<<"s">>, <<"~", "~", "~", "~">>>> >>),
      Oversized }

(* A payload whose inflated bytes are the text {"s":"?"} with the byte 255, *)
(* which is valid nowhere in UTF-8, in the place of the '?'; and the       *)
(* document whose member is the one character U+FFFD.                      *)
BadUtf8 == [kind |-> "badUtf8", fields |-> <<>>]
Replaced == Obj(<< <<<<"s">>, <<"U+FFFD">>>> >>)

GroovyPayloads == GroovyDocs \cup {Garbage, BadUtf8}

(* What the sender compresses and base64-encodes. *)
GroovyBytes(d) ==
    IF d = Garbage THEN <<255, 251>>
    ELSE IF d = BadUtf8
    THEN deflateRaw(Utf8Bytes(<<"{", "\"", "s", "\"", ":", "\"">>) \o <<255>>
                        \o Utf8Bytes(<<"\"", "}">>))
    ELSE deflateRaw(Utf8Bytes(JSONstringify(d)))

WireForms == {"urlSafeUnpadded", "urlSafePadded", "standardUnpadded", "standardPadded"}
MalformedForms == {"danglingChar", "badChar"}
GroovyForms == WireForms \cup MalformedForms

(* The order in which the client sends the forms to a server. *)
FormOrder == <<"urlSafeUnpadded", "urlSafePadded", "standardUnpadded", "standardPadded",
               "danglingChar", "badChar">>

(* The forms in which a payload is sent: the oversized document goes out   *)
(* in the form the sender produces, the other payloads in every form.      *)
FormsOf(d) == IF d = Oversized THEN {"urlSafeUnpadded"} ELSE GroovyForms

(* The wire forms of a byte payload, and two malformed strings made from   *)
(* it: one with characters appended so that its length is 1 modulo 4, one  *)
(* with a character outside both alphabets inside it.                      *)
GroovyWire(form, bytes) ==
    LET padded == toStringBase64(bytes)
        bare == StripPadding(padded)
        extra == IF Len(bare) % 4 = 1 THEN 4 ELSE (5 - (Len(bare) % 4)) % 4
    IN  CASE form = "standardPadded" -> padded
          [] form = "standardUnpadded" -> bare
          [] form = "urlSafePadded" -> toUrlSafe(padded)
          [] form = "urlSafeUnpadded" -> toUrlSafe(bare)
          [] form = "danglingChar" -> toUrlSafe(bare) \o Repeat("A", extra)
          [] form = "badChar" -> <<toUrlSafe(bare)[1], "*">> \o Tail(toUrlSafe(bare))

(* Buffer.prototype.toString('utf-8') / new String(bytes, 'UTF-8'): never  *)
(* throws; a byte that is not part of valid UTF-8 becomes U+FFFD.          *)
utf8ToString(bs) ==
    LET isLead(i) == i >= 1 /\ i <= Len(bs) /\ bs[i] >= 194 /\ bs[i] <= 223
        isCont(i) == i >= 1 /\ i <= Len(bs) /\ bs[i] >= 128 /\ bs[i] <= 191
    IN  Flatten([i \in 1..Len(bs) |->
            IF bs[i] < 128 THEN <<IF IsPrintable(bs[i]) THEN FromCharCode(bs[i]) ELSE "ctl">>
            ELSE IF isLead(i) /\ isCont(i + 1) THEN <<"nonascii">>
            ELSE IF isCont(i) /\ isLead(i - 1) THEN <<>>
            ELSE <<"U+FFFD">>])

(* The values JSON text can stand for. *)
Documents == GroovyDocs \cup {Replaced} \cup ServerDocs

(* The JSON text of each document. *)
DocumentText == [d \in Documents |-> JSONstringify(d)]

(* JSON.parse / JsonSlurper.parseText: the document whose text this is;    *)
(* throws when the text is not the text of a document.                     *)
JSONparse(text) ==
    IF \E d \in Documents : DocumentText[d] = text
    THEN [ok |-> TRUE, val |-> CHOOSE d \in Documents : DocumentText[d] = text]
    ELSE [ok |-> FALSE, val |-> NoPayload]

(* java.util.zip.Inflater(true): setInput, then one inflate(byte[cap])     *)
(* call.  It throws DataFormatException on an invalid stream; it returns   *)
(* the bytes produced so far, at most cap, when the output array is full   *)
(* or the input runs out.                                                  *)
RECURSIVE inflaterInflate(_, _)
inflaterInflate(bs, cap) ==
    IF cap = 0 \/ Len(bs) < 5 THEN Ok(<<>>)
    ELSE IF ~StoredHeaderValid(bs) THEN Threw
    ELSE LET block == Take(SubSeq(bs, 6, IF Len(bs) < 5 + StoredLen(bs) THEN Len(bs)
                                         ELSE 5 + StoredLen(bs)), cap)
         IN  IF bs[1] = 1 \/ Len(bs) < 5 + StoredLen(bs) \/ Len(block) = cap THEN Ok(block)
             ELSE LET rest == inflaterInflate(Drop(bs, 5 + StoredLen(bs)), cap - Len(block))
                  IN  IF rest.ok THEN Ok(block \o rest.val) ELSE Threw

GroovyNotRun ==
    [ran |-> FALSE, input |-> <<>>, standardBase64 |-> <<>>, buffer |-> <<>>,
     decompressed |-> <<>>, jsonString |-> <<>>, failedAt |-> "none", parsed |-> NoPayload]

(* One run of decodeGroovyString.  Buffer.from and toString never throw:   *)
(* the run can fail in inflateRawSync and in JSON.parse.                   *)
decodeGroovyString(urlSafeBase64) ==
    LET std == toStandardBase64(urlSafeBase64)
        buf == BufferFromBase64(std)
        inf == inflateRaw(buf)
        str == utf8ToString(inf.val)
        json == JSONparse(str)
        run == [GroovyNotRun EXCEPT !.ran = TRUE, !.input = urlSafeBase64,
                                    !.standardBase64 = std, !.buffer = buf]
    IN  IF ~inf.ok THEN [run EXCEPT !.failedAt = "inflate"]
        ELSE IF ~json.ok THEN
            [run EXCEPT !.decompressed = inf.val, !.jsonString = str, !.failedAt = "json"]
        ELSE [run EXCEPT !.decompressed = inf.val, !.jsonString = str, !.parsed = json.val]

(* One run of decodeGroovyData.  Base64.decoder.decode, Inflater.inflate   *)
(* and JsonSlurper.parseText can throw.                                    *)
decodeGroovyData(urlSafeBase64) ==
    LET std == toStandardBase64(urlSafeBase64)
        b64 == JavaBase64Decode(std)
        inf == inflaterInflate(b64.val, InflateBufferSize)
        str == utf8ToString(inf.val)
        json == JSONparse(str)
        run == [GroovyNotRun EXCEPT !.ran = TRUE, !.input = urlSafeBase64,
                                    !.standardBase64 = std]
    IN  IF ~b64.ok THEN [run EXCEPT !.failedAt = "base64"]
        ELSE IF ~inf.ok THEN [run EXCEPT !.buffer = b64.val, !.failedAt = "inflate"]
        ELSE IF ~json.ok THEN
            [run EXCEPT !.buffer = b64.val, !.decompressed = inf.val, !.jsonString = str,
                        !.failedAt = "json"]
        ELSE [run EXCEPT !.buffer = b64.val, !.decompressed = inf.val, !.jsonString = str,
                         !.parsed = json.val]

Decoders == {"decodeGroovyString", "decodeGroovyData"}

Sent(decoder, form) == groovyDec[<<decoder, form>>].ran

IsNextForm(decoder, form) ==
    /\ form \in FormsOf(doc)
    /\ ~Sent(decoder, form)
    /\ \A j \in 1..(IndexIn(FormOrder, form) - 1) : Sent(decoder, FormOrder[j])

(* The Node server decodes the next form of the payload. *)
NodeDecode(form) ==
    /\ IsNextForm("decodeGroovyString", form)
    /\ groovyDec' = [groovyDec EXCEPT ![<<"decodeGroovyString", form>>] =
                         decodeGroovyString(GroovyWire(form, GroovyBytes(doc)))]
    /\ UNCHANGED <<doc, encVars, normVars, serverVars>>

(* The Groovy server decodes the next form of the payload. *)
GroovyDecode(form) ==
    /\ IsNextForm("decodeGroovyData", form)
    /\ groovyDec' = [groovyDec EXCEPT ![<<"decodeGroovyData", form>>] =
                         decodeGroovyData(GroovyWire(form, GroovyBytes(doc)))]
    /\ UNCHANGED <<doc, encVars, normVars, serverVars>>

-----------------------------------------------------------------------------
(* The Node server (groovy-server.js): the request handlers *)

SyntaxError == [name |-> "SyntaxError", code |-> "", message |-> "Unexpected token in JSON"]
TypeError ==
    [name |-> "TypeError", code |-> "", message |-> "urlSafeBase64.substring is not a function"]

(* A payload whose inflated bytes are the text "{", which is no JSON. *)
NotJson == [kind |-> "notJson", fields |-> <<>>]

ServerPayloads == ServerDocs \cup {Garbage, NotJson}

ServerBytes(d) ==
    IF d = NotJson THEN deflateRaw(Utf8Bytes(<<"{">>)) ELSE GroovyBytes(d)

(* The strings a client sends for a payload: the sender's URL-safe form,   *)
(* the padded standard form, and that form percent-encoded.                *)
ServerForms == {"urlSafeUnpadded", "standardPadded", "percentEncoded"}

ServerWire(form, bytes) ==
    IF form = "percentEncoded" THEN encodeURIComponent(GroovyWire("standardPadded", bytes))
    ELSE GroovyWire(form, bytes)

(* What follows /debug/ or /contiva/ in the URL of a GET request: a form   *)
(* of a payload, or a string that ends in a broken escape.                 *)
PathInputs ==
    {ServerWire(f, ServerBytes(d)) : f \in ServerForms, d \in ServerPayloads}
        \cup {<<"A", "Q", "%">>}

(* The "data" member of the body of a POST request: a string, a number,    *)
(* or no member at all.                                                    *)
StringData(text) == [kind |-> "string", text |-> text]
NumberData == [kind |-> "number", text |-> <<>>]
AbsentData == [kind |-> "absent", text |-> <<>>]

BodyInputs ==
    {StringData(ServerWire(f, ServerBytes(d))) : f \in ServerForms, d \in ServerPayloads}
        \cup {StringData(<<>>), NumberData, AbsentData}

(* What the file system does in saveDecodedData. *)
FsOutcomes == {"ok", "mkdirFails", "writeFails", "bodyFails", "headerFails", "propertiesFails"}

(* The files saveDecodedData writes, in the order it writes them, and the  *)
(* writeFileSync calls that throw under an outcome of the file system.     *)
SavedFiles == <<"debug.body", "debug.header", "debug.properties">>

writeThrows(fs, file) ==
    \/ fs = "writeFails"
    \/ fs = "bodyFails" /\ file = "debug.body"
    \/ fs = "headerFails" /\ file = "debug.header"
    \/ fs = "propertiesFails" /\ file = "debug.properties"

(* Express matches /debug/:data and /contiva/:data against one path        *)
(* segment, and hands the segment to the handler percent-decoded; a        *)
(* segment it cannot decode goes to the error handler.                     *)
routeMatches(raw) == raw # <<>> /\ "/" \notin Range(raw)
reqParams(raw) == decodeURIComponent(raw)

NoRequest ==
    [pc |-> "none", route |-> "", raw |-> <<>>, data |-> AbsentData, fs |-> "ok",
     run |-> GroovyNotRun, execError |-> FALSE, chromePromise |-> "none"]

Response(status, success, message) ==
    [status |-> status, success |-> success, message |-> message, error |-> "",
     hasData |-> FALSE, data |-> NoPayload, files |-> "absent", contivaData |-> NoPayload,
     encoded |-> <<>>, encodedLength |-> 0, warning |-> FALSE]

(* 404 handler and error handler *)
notFound == Response(404, FALSE, "Endpoint not found")
errorHandler(err) == [Response(500, FALSE, "Internal server error") EXCEPT !.error = err]

(* decodeGroovyString called with what the request carries: a value that   *)
(* is no string has no substring method (line 89).                         *)
decodeGroovyCall(data) ==
    IF data.kind = "string" THEN decodeGroovyString(data.text)
    ELSE [GroovyNotRun EXCEPT !.ran = TRUE, !.failedAt = "argument"]

(* The error a failed decodeGroovyString run throws. *)
thrownBy(run) ==
    CASE run.failedAt = "argument" -> TypeError
      [] run.failedAt = "inflate" -> inflateError(run.buffer)
      [] run.failedAt = "json" -> SyntaxError
      [] OTHER -> NoError

(* cpiHelperData.input || {} and the like *)
HasObject(fields, key) == \E i \in 1..Len(fields) : fields[i][1] = key /\ IsNested(fields[i])
ObjectOr(fields, key) ==
    IF HasObject(fields, key)
    THEN fields[CHOOSE i \in 1..Len(fields) : fields[i][1] = key /\ IsNested(fields[i])][2]
    ELSE <<>>
HasString(fields, key) ==
    \E i \in 1..Len(fields) : fields[i][1] = key /\ ~IsNested(fields[i]) /\ fields[i][2] # <<>>
StringOr(fields, key, default) ==
    IF HasString(fields, key)
    THEN fields[CHOOSE i \in 1..Len(fields) : fields[i][1] = key /\ ~IsNested(fields[i])][2]
    ELSE default

(* cpiHelperToContiva *)
cpiHelperToContiva(cpiHelperData) ==
    LET input == ObjectOr(cpiHelperData.fields, <<"i", "n", "p", "u", "t">>)
        script == ObjectOr(cpiHelperData.fields, <<"s", "c", "r", "i", "p", "t">>)
    IN  Obj(<< Str(<<"c", "u", "r", "r", "e", "n", "t", "S", "e", "s", "s", "i", "o", "n",
                     "T", "y", "p", "e">>, <<"g", "r", "o", "o", "v", "y">>),
               Str(<<"s", "c", "r", "i", "p", "t", "I", "n", "p", "u", "t">>,
                   StringOr(input, <<"b", "o", "d", "y">>, <<>>)),
               Str(<<"s", "c", "r", "i", "p", "t">>,
                   StringOr(script, <<"c", "o", "d", "e">>, <<>>)),
               Str(<<"f", "u", "n", "c", "t", "i", "o", "n", "N", "a", "m", "e">>,
                   StringOr(script, <<"f", "u", "n", "c", "t", "i", "o", "n">>,
                            <<"p", "r", "o", "c", "e", "s", "s", "D", "a", "t", "a">>)),
               Nested(<<"h", "e", "a", "d", "e", "r", "s">>,
                      ObjectOr(input, <<"h", "e", "a", "d", "e", "r", "s">>)),
               Nested(<<"p", "r", "o", "p", "e", "r", "t", "i", "e", "s">>,
                      ObjectOr(input, <<"p", "r", "o", "p", "e", "r", "t", "i", "e", "s">>)) >>)

(* saveDecodedData: a failing mkdirSync, or decodedData being null, ends   *)
(* in the outer catch; a failing writeFileSync is caught and logged, file  *)
(* by file, and the next file is tried.  The result is what the function   *)
(* returns, the writeFileSync calls it made and the files they wrote, each *)
(* with the value its content is made from.                                *)
saveDecodedData(decodedData, fs) ==
    LET input == ObjectOr(decodedData.fields, <<"i", "n", "p", "u", "t">>)
        content == <<StringOr(input, <<"b", "o", "d", "y">>, <<>>),
                     ObjectOr(input, <<"h", "e", "a", "d", "e", "r", "s">>),
                     ObjectOr(input, <<"p", "r", "o", "p", "e", "r", "t", "i", "e", "s">>)>>
    IN  IF fs = "mkdirFails" \/ decodedData.kind = "null"
        THEN [data |-> decodedData, success |-> FALSE, files |-> "undefined",
              attempted |-> <<>>, written |-> {}]
        ELSE [data |-> decodedData, success |-> TRUE, files |-> "paths",
              attempted |-> SavedFiles,
              written |-> {<<SavedFiles[i], content[i]>> :
                              i \in {j \in 1..Len(SavedFiles) : ~writeThrows(fs, SavedFiles[j])}}]

(* Mutation of debugHandler: a decode error is swallowed and the handler   *)
(* goes on with null.                                                      *)
debugHandlerSwallowsError(data, fs) ==
    LET run == decodeGroovyCall(data)
        decodedData == IF run.failedAt = "none" THEN run.parsed ELSE NullValue
        saveResult == saveDecodedData(decodedData, fs)
    IN  [responses |->
            <<[Response(200, TRUE, "Data decoded successfully") EXCEPT
                  !.hasData = TRUE, !.data = decodedData,
                  !.files = IF saveResult.files = "paths" THEN "paths" ELSE "null"]>>,
         saved |-> <<saveResult>>]

(* The try/catch of GET /debug/:data and of POST /debug, from the call of  *)
(* decodeGroovyString on: the responses sent and the saveDecodedData calls *)
(* made.                                                                   *)
debugHandler(data, fs) ==
    LET run == decodeGroovyCall(data)
        saveResult == saveDecodedData(run.parsed, fs)
    IN  IF run.failedAt # "none"
        THEN [responses |->
                 <<[Response(400, FALSE, "Failed to decode data") EXCEPT
                       !.error = thrownBy(run).message]>>,
              saved |-> <<>>]
        ELSE [responses |->
                 <<[Response(200, TRUE, "Data decoded successfully") EXCEPT
                       !.hasData = TRUE, !.data = run.parsed,
                       !.files = IF saveResult.files = "paths" THEN "paths" ELSE "null"]>>,
              saved |-> <<saveResult>>]

encoderIdle == UNCHANGED <<now, contivaData, calledAt, encPc, pending, zipBuffer, delivered,
                           promise>>

(* app.get('/debug/:data') *)
getDebug(raw, fs) ==
    /\ request.pc = "none"
    /\ LET param == reqParams(raw)
           data == StringData(param.val)
           done == [NoRequest EXCEPT !.pc = "done", !.route = "GET /debug/:data",
                                     !.raw = raw, !.fs = fs]
       IN  IF ~routeMatches(raw)
           THEN /\ request' = done
                /\ responses' = <<notFound>>
                /\ saved' = <<>>
           ELSE IF ~param.ok
           THEN /\ request' = done
                /\ responses' = <<errorHandler("Failed to decode param")>>
                /\ saved' = <<>>
           ELSE /\ request' = [done EXCEPT !.data = data, !.run = decodeGroovyCall(data)]
                /\ responses' = debugHandler(data, fs).responses
                /\ saved' = debugHandler(data, fs).saved
    /\ encoderIdle
    /\ UNCHANGED <<chrome, zipDec, groovyVars, normVars>>

(* app.post('/debug') *)
postDebug(data, fs) ==
    /\ request.pc = "none"
    /\ LET done == [NoRequest EXCEPT !.pc = "done", !.route = "POST /debug",
                                     !.raw = data.text, !.data = data, !.fs = fs]
       IN  IF data.kind = "absent" \/ (data.kind = "string" /\ data.text = <<>>)
           THEN /\ request' = done
                /\ responses' = <<Response(400, FALSE, "Missing \"data\" field in request body")>>
                /\ saved' = <<>>
           ELSE /\ request' = [done EXCEPT !.run = decodeGroovyCall(data)]
                /\ responses' = debugHandler(data, fs).responses
                /\ saved' = debugHandler(data, fs).saved
    /\ encoderIdle
    /\ UNCHANGED <<chrome, zipDec, groovyVars, normVars>>

(* app.get('/contiva/test'), up to the await of encodeContivaData *)
getContivaTest ==
    /\ request.pc = "none"
    /\ request' = [NoRequest EXCEPT !.pc = "awaitEncode", !.route = "GET /contiva/test"]
    /\ encodeCall(1, TestContivaData)
    /\ UNCHANGED <<responses, saved, chrome, zipDec, groovyVars, normVars>>

(* Mutation of getContiva: the return after the 400 response for a value   *)
(* that is no object is missing.                                           *)
getContivaNoReturn(raw) ==
    /\ request.pc = "none"
    /\ LET param == reqParams(raw)
           run == decodeGroovyCall(StringData(param.val))
           req == [NoRequest EXCEPT !.route = "GET /contiva/:data", !.raw = raw]
       IN  IF ~routeMatches(raw)
           THEN /\ request' = [req EXCEPT !.pc = "done"]
                /\ responses' = <<notFound>>
                /\ encoderIdle
           ELSE IF ~param.ok
           THEN /\ request' = [req EXCEPT !.pc = "done"]
                /\ responses' = <<errorHandler("Failed to decode param")>>
                /\ encoderIdle
           ELSE IF run.failedAt # "none"
           THEN /\ request' = [req EXCEPT !.pc = "done", !.data = StringData(param.val),
                                          !.run = run]
                /\ responses' = <<[Response(400, FALSE, "Failed to convert and encode data")
                                      EXCEPT !.error = thrownBy(run).message]>>
                /\ encoderIdle
           ELSE /\ request' = [req EXCEPT !.pc = "awaitEncode",
                                          !.data = StringData(param.val), !.run = run]
                /\ responses' = IF run.parsed.kind = "null"
                                THEN <<Response(400, FALSE, "Decoded data is not a valid object")>>
                                ELSE <<>>
                /\ encodeCall(1, HardcodedContivaData)
    /\ UNCHANGED <<saved, chrome, zipDec, groovyVars, normVars>>

(* app.get('/contiva/:data'), up to the await of encodeContivaData: the    *)
(* payload that is encoded is the const contivaData of lines 474-488; the  *)
(* call of cpiHelperToContiva is commented out (line 472).                 *)
getContiva(raw) ==
    /\ request.pc = "none"
    /\ LET param == reqParams(raw)
           run == decodeGroovyCall(StringData(param.val))
           req == [NoRequest EXCEPT !.route = "GET /contiva/:data", !.raw = raw]
       IN  IF ~routeMatches(raw)
           THEN /\ request' = [req EXCEPT !.pc = "done"]
                /\ responses' = <<notFound>>
                /\ encoderIdle
           ELSE IF ~param.ok
           THEN /\ request' = [req EXCEPT !.pc = "done"]
                /\ responses' = <<errorHandler("Failed to decode param")>>
                /\ encoderIdle
           ELSE IF run.failedAt # "none"
           THEN /\ request' = [req EXCEPT !.pc = "done", !.data = StringData(param.val),
                                          !.run = run]
                /\ responses' = <<[Response(400, FALSE, "Failed to convert and encode data")
                                      EXCEPT !.error = thrownBy(run).message]>>
                /\ encoderIdle
           ELSE IF run.parsed.kind = "null"
           THEN /\ request' = [req EXCEPT !.pc = "done", !.data = StringData(param.val),
                                          !.run = run]
                /\ responses' = <<Response(400, FALSE, "Decoded data is not a valid object")>>
                /\ encoderIdle
           ELSE /\ request' = [req EXCEPT !.pc = "awaitEncode",
                                          !.data = StringData(param.val), !.run = run]
                /\ responses' = responses
                /\ encodeCall(1, HardcodedContivaData)
    /\ UNCHANGED <<saved, chrome, zipDec, groovyVars, normVars>>

(* The await of encodeContivaData returns: a rejection goes to the outer   *)
(* catch, a resolution to the call of openInChrome, which starts the       *)
(* browser command with exec.                                              *)
afterEncode ==
    /\ request.pc = "awaitEncode"
    /\ promise[1].state # "pending"
    /\ IF promise[1].state = "rejected"
       THEN /\ request' = [request EXCEPT !.pc = "done"]
            /\ responses' = Append(responses,
                   IF request.route = "GET /contiva/test"
                   THEN [Response(500, FALSE, "Error processing test data")
                            EXCEPT !.error = "encode error"]
                   ELSE [Response(400, FALSE, "Failed to convert and encode data")
                            EXCEPT !.error = "encode error"])
            /\ UNCHANGED chrome
       ELSE /\ request' = [request EXCEPT !.pc = "awaitChrome"]
            /\ chrome' = Append(chrome, promise[1].value)
            /\ UNCHANGED responses
    /\ UNCHANGED <<saved, encVars, groovyVars, normVars>>

(* Mutation of openInChrome: the promise is rejected when exec reports an  *)
(* error.                                                                  *)
openInChromeRejectsOnError(error) == IF error THEN "rejected" ELSE "resolved"

(* openInChrome: how its promise settles in the callback of exec; both     *)
(* branches call resolve().                                                *)
openInChrome(error) == IF error THEN "resolved" ELSE "resolved"

(* encodedContivaData.substring(0, 100) + "..." *)
abbreviated(s) == Take(s, 100) \o <<".", ".", ".">>

(* The callback of exec runs and the await of openInChrome returns: the    *)
(* response of the inner try, or of its catch.                             *)
execCallback(error) ==
    /\ request.pc = "awaitChrome"
    /\ request' = [request EXCEPT !.pc = "done", !.execError = error,
                                  !.chromePromise = openInChrome(error)]
    /\ LET encodedContivaData == promise[1].value
           encodedData == request.data.text
       IN  responses' = Append(responses,
               IF request.route = "GET /contiva/test"
               THEN IF openInChrome(error) = "resolved"
                    THEN [Response(200, TRUE, "Test data encoded and opened in Contiva IDE")
                             EXCEPT !.encoded = encodedContivaData,
                                    !.encodedLength = Len(encodedContivaData)]
                    ELSE [Response(200, TRUE,
                                   "Data encoded successfully (browser opening failed)")
                             EXCEPT !.encoded = encodedContivaData,
                                    !.encodedLength = Len(encodedContivaData),
                                    !.warning = TRUE]
               ELSE IF openInChrome(error) = "resolved"
                    THEN [Response(200, TRUE, "Data converted and opened in Contiva IDE")
                             EXCEPT !.contivaData = contivaData[1],
                                    !.encoded = abbreviated(encodedContivaData),
                                    !.encodedLength = Len(encodedContivaData)]
                    ELSE [Response(200, TRUE,
                                   "Data converted successfully (browser opening failed)")
                             EXCEPT !.contivaData = contivaData[1],
                                    !.encoded = abbreviated(encodedData),
                                    !.encodedLength = Len(encodedData),
                                    !.warning = TRUE])
    /\ UNCHANGED <<saved, chrome, encVars, groovyVars, normVars>>

-----------------------------------------------------------------------------
(* The normalizer on its own: steps 1 and 2 of the deflate-variant         *)
(* decoders applied to a string, and applied again to the result.          *)

NormChars == {"A", "-", "_", "="}

RECURSIVE StringsUpTo(_)
StringsUpTo(n) ==
    IF n = 0 THEN {<<>>}
    ELSE StringsUpTo(n - 1)
             \cup {Append(t, c) : t \in {u \in StringsUpTo(n - 1) : Len(u) = n - 1},
                                  c \in NormChars}

NormNotRun == [ran |-> FALSE, paddingNeeded |-> 0, once |-> <<>>, twice |-> <<>>]

Normalize ==
    /\ ~normOut.ran
    /\ normOut' = [ran |-> TRUE,
                   paddingNeeded |-> paddingNeeded(Len(replaceUrlSafe(normIn))),
                   once |-> toStandardBase64(normIn),
                   twice |-> toStandardBase64(toStandardBase64(normIn))]
    /\ UNCHANGED <<normIn, encVars, groovyVars, serverVars>>

-----------------------------------------------------------------------------
(* Specification of the encoder: two encodeContivaData calls whose stream  *)
(* events interleave in any order while the wall clock advances.           *)

GroovyIdle == /\ doc = NoPayload
              /\ groovyDec = [k \in Decoders \X GroovyForms |-> GroovyNotRun]
NormIdle == /\ normIn = <<>>
            /\ normOut = NormNotRun
ServerIdle == /\ request = NoRequest
              /\ responses = <<>>
              /\ saved = <<>>
              /\ chrome = <<>>

EncoderInit ==
    /\ now = DosEpoch + 1
    /\ contivaData = [c \in Calls |-> NoPayload]
    /\ calledAt = [c \in Calls |-> 0]
    /\ encPc = [c \in Calls |-> "idle"]
    /\ pending = [c \in Calls |-> <<>>]
    /\ zipBuffer = [c \in Calls |-> <<>>]
    /\ delivered = [c \in Calls |-> <<>>]
    /\ promise = [c \in Calls |-> Pending]
    /\ zipDec = NotRun

Init == EncoderInit /\ GroovyIdle /\ NormIdle /\ ServerIdle

Next ==
    \/ Tick
    \/ \E c \in Calls, data \in Payloads : encodeContivaData(c, data)
    \/ \E c \in Calls : onData(c)
    \/ \E c \in Calls : onEnd(c)
    \/ \E c \in Calls : onArchiveError(c)
    \/ \E c \in Calls : onOutputError(c)

Spec == Init /\ [][Next]_vars

(* Specification of the ZIP codec: one encode call, and decodes of the     *)
(* wire forms of the string it resolved with.                              *)

NextZip ==
    \/ \E data \in Payloads : encodeContivaData(1, data)
    \/ onData(1)
    \/ onEnd(1)
    \/ onArchiveError(1)
    \/ onOutputError(1)
    \/ \E form \in ZipForms : decodeContivaData(1, form)

SpecZip == Init /\ [][NextZip]_vars

(* Specification of the deflate variant: a payload is drawn, and each of   *)
(* the two decoders is run on the forms of it, in the order of FormOrder.  *)

InitGroovy ==
    /\ EncoderInit
    /\ NormIdle
    /\ ServerIdle
    /\ doc \in GroovyPayloads
    /\ groovyDec = [k \in Decoders \X GroovyForms |-> GroovyNotRun]

NextGroovy ==
    \/ \E form \in GroovyForms : NodeDecode(form)
    \/ \E form \in GroovyForms : GroovyDecode(form)

SpecGroovy == InitGroovy /\ [][NextGroovy]_vars

(* Specification of the Node server: one request is received and handled  *)
(* to its response; the stream events of the encode call it makes and the  *)
(* callback of exec run when the event loop gets to them.                  *)

NextServer ==
    \/ \E raw \in PathInputs, fs \in FsOutcomes : getDebug(raw, fs)
    \/ \E data \in BodyInputs, fs \in FsOutcomes : postDebug(data, fs)
    \/ getContivaTest
    \/ \E raw \in PathInputs : getContiva(raw)
    \/ onData(1)
    \/ onEnd(1)
    \/ onArchiveError(1)
    \/ onOutputError(1)
    \/ afterEncode
    \/ \E error \in BOOLEAN : execCallback(error)

SpecServer == Init /\ [][NextServer]_vars

(* The 'end' event of the output of call c is emitted: the steps of onEnd, *)
(* told by the position of the call alone.                                 *)
endEmitted(c) ==
    /\ encPc[c] = "piping"
    /\ pending[c] = <<>>
    /\ encPc' = [encPc EXCEPT ![c] = "ended"]

(* The same with the event loop running every callback that is due. *)
SpecServerLive ==
    /\ SpecServer
    /\ WF_vars(onData(1))
    /\ WF_encPc(endEmitted(1))
    /\ WF_vars(afterEncode)
    /\ WF_vars(\E error \in BOOLEAN : execCallback(error))

(* Specification of the normalizer: a string is drawn and normalized. *)

InitNorm ==
    /\ EncoderInit
    /\ GroovyIdle
    /\ ServerIdle
    /\ normIn \in StringsUpTo(MaxNormLen)
    /\ normOut = NormNotRun

NextNorm == Normalize

SpecNorm == InitNorm /\ [][NextNorm]_vars

-----------------------------------------------------------------------------
(* Reading a one-entry archive back: the entry's name, its content and the *)
(* number of entries the central directory records.                        *)

ArchiveEntryName(zip) == SubSeq(zip, 10, 9 + zip[9])
ArchiveEntryContent(zip) == inflateRaw(Drop(zip, 9 + zip[9])).val
ArchiveEntryCount(zip) == zip[Len(zip)]

WholeArchive(data) == Flatten(zipChunks(EntryName, Utf8Bytes(JSONstringify(data)), 0))

-----------------------------------------------------------------------------
(* C1  ZIP-variant round trip: decoding the string an encode call resolved *)
(* with gives, byte for byte, the archive that call accumulated before     *)
(* gzipping, and that archive has the single entry data.json holding       *)
(* exactly JSON.stringify of the payload.                                  *)
ZipRoundTrip ==
    (zipDec.ran /\ zipDec.form = "encoded") =>
        /\ zipDec.failedAt = "none"
        /\ zipDec.zipBuffer = zipBuffer[zipDec.call]
        /\ ArchiveEntryCount(zipDec.zipBuffer) = 1
        /\ ArchiveEntryName(zipDec.zipBuffer) = Utf8Bytes(EntryName)
        /\ ArchiveEntryContent(zipDec.zipBuffer)
               = Utf8Bytes(JSONstringify(contivaData[zipDec.call]))

(* C1 witness: a payload with a member was encoded and its transport       *)
(* string, which carries escaped '+' or '/' and padding, decoded.          *)
ZipRoundTripWitness ==
    /\ zipDec.ran
    /\ zipDec.form = "encoded"
    /\ contivaData[zipDec.call].fields # <<>>
    /\ zipDec.failedAt = "none"
    /\ \E i \in 1..Len(zipDec.decodedUrl) : zipDec.decodedUrl[i] \in {"+", "/"}
    /\ HasPadding(zipDec.decodedUrl)

(* C8  ZIP-variant decode pipeline: the locals of a decodeContivaData run  *)
(* are the percent-decoded input, that text with '-' and '_' replaced by   *)
(* '+' and '/' (and nothing else changed), its base64 decoding, and the    *)
(* gunzip of those bytes, which is returned as zipBuffer as it is.         *)
ZipDecodePipeline ==
    zipDec.ran =>
        LET url == decodeURIComponent(zipDec.encodedData)
        IN  /\ zipDec.failedAt = "percent" <=> ~url.ok
            /\ url.ok =>
                /\ zipDec.decodedUrl = url.val
                /\ Len(zipDec.standardBase64) = Len(zipDec.decodedUrl)
                /\ \A i \in 1..Len(zipDec.decodedUrl) :
                       zipDec.standardBase64[i] =
                           CASE zipDec.decodedUrl[i] = "-" -> "+"
                             [] zipDec.decodedUrl[i] = "_" -> "/"
                             [] OTHER -> zipDec.decodedUrl[i]
                /\ (\A i \in 1..Len(zipDec.decodedUrl) : zipDec.decodedUrl[i] \notin {"-", "_"})
                       => zipDec.standardBase64 = zipDec.decodedUrl
                /\ zipDec.buffer = BufferFromBase64(zipDec.standardBase64)
                /\ zipDec.failedAt = "gunzip" <=> ~gunzipSync(zipDec.buffer).ok
                /\ zipDec.failedAt = "none" =>
                       gunzipSync(zipDec.buffer) = Ok(zipDec.zipBuffer)

(* C8 witness: a run on input whose escapes decode to URL-safe characters  *)
(* went through all four stages.                                           *)
ZipDecodePipelineWitness ==
    /\ zipDec.ran
    /\ zipDec.form = "urlSafeEscaped"
    /\ \E i \in 1..Len(zipDec.decodedUrl) : zipDec.decodedUrl[i] \in {"-", "_"}
    /\ zipDec.standardBase64 # zipDec.decodedUrl
    /\ zipDec.failedAt = "none"
    /\ zipDec.zipBuffer = zipBuffer[zipDec.call]

(* C9  ZIP-variant decode rejects ragged padding: a run on base64 text     *)
(* whose '=' padding is missing or in the wrong place fails at the base64  *)
(* stage.                                                                  *)
ZipRaggedPaddingRejected ==
    (zipDec.ran /\ zipDec.form \in {"unpadded", "misplacedPad"}) =>
        zipDec.failedAt = "base64"

(* Base64 text as the transport format defines it: characters of the      *)
(* standard alphabet in whole units of four, '=' only as the last one or   *)
(* two characters.                                                         *)
IsCanonicalBase64(s) ==
    /\ Len(s) % 4 = 0
    /\ \A i \in 1..Len(s) : s[i] \in StdChars \cup {"="}
    /\ \A i \in 1..Len(s) : s[i] = "=" => (i >= Len(s) - 1 /\ s[Len(s)] = "=")

ZlibCodes == {"Z_DATA_ERROR", "Z_BUF_ERROR"}

(* The stage an error tells its catcher about. *)
StageIdentifiedBy(e) ==
    IF e = NoError THEN "none"
    ELSE IF e.name = "URIError" THEN "percent"
    ELSE IF e.name = "Error" /\ e.code \in ZlibCodes THEN "gunzip"
    ELSE IF e.name = "Base64Error" THEN "base64"
    ELSE "unknown"

(* The first stage of the ZIP-variant decode whose input is malformed. *)
MalformedStage(encodedData) ==
    LET url == decodeURIComponent(encodedData)
        std == replaceUrlSafe(url.val)
    IN  IF ~url.ok THEN "percent"
        ELSE IF ~IsCanonicalBase64(std) THEN "base64"
        ELSE IF ~gunzipSync(BufferFromBase64(std)).ok THEN "gunzip"
        ELSE "none"

(* C14  Stage-identified decode errors: a decodeContivaData call on input  *)
(* that is malformed for percent-decoding, for base64 decoding or for gzip *)
(* decompression fails with an error that identifies that stage, and that  *)
(* stage only.                                                             *)
StageIdentifiedErrors ==
    zipDec.ran => StageIdentifiedBy(zipDec.error) = MalformedStage(zipDec.encodedData)

-----------------------------------------------------------------------------
Resolved(c) == promise[c].state = "resolved"

(* C2  Encode determinism: two calls on equal payloads resolve with the    *)
(* same transport string, whatever the wall-clock time of each call and of *)
(* each 'end' callback.                                                    *)
EncodeDeterministic ==
    \A c1, c2 \in Calls :
        (Resolved(c1) /\ Resolved(c2) /\ contivaData[c1] = contivaData[c2])
            => promise[c1].value = promise[c2].value

(* C2 witness: two calls on equal payloads, made at different times, have  *)
(* both resolved.                                                          *)
EncodeDeterministicWitness ==
    /\ Resolved(1) /\ Resolved(2)
    /\ contivaData[1] = contivaData[2]
    /\ calledAt[1] # calledAt[2]
    /\ promise[1].value # <<>>

Alphanumeric ==
    {Ascii[i] : i \in 17..26} \cup {Ascii[i] : i \in 34..59} \cup {Ascii[i] : i \in 66..91}

NoPartialEncodeResult ==
    /\ [](\A c \in Calls : Resolved(c) =>
              /\ zipBuffer[c] = WholeArchive(contivaData[c])
              /\ promise[c].value = encodeURIComponent(toStringBase64(
                                        gzipSync(WholeArchive(contivaData[c]), 0))))
    /\ [][\A c \in Calls : promise[c].state # "pending" => promise'[c] = promise[c]]_vars

(* C7 witness: output ended on an incomplete archive after an archive      *)
(* error, and the promise is rejected.                                     *)
NoPartialEncodeResultWitness ==
    \E c \in Calls :
        /\ encPc[c] = "ended"
        /\ zipBuffer[c] # WholeArchive(contivaData[c])
        /\ zipBuffer[c] # <<>>
        /\ promise[c].state = "rejected"

(* What a call on data resolves with when no other call is in flight. *)
AloneResult(data) ==
    endCallback(Flatten(zipChunks(EntryName, Utf8Bytes(JSONstringify(data)), 0)), 0)

(* C15  Concurrent encodes do not interfere: with two calls in flight and  *)
(* their 'data'/'end' callbacks interleaved in any order, a call resolves  *)
(* with the string it resolves with when run alone, and a step that        *)
(* changes the buffer of a call is the arrival of a chunk of that call and *)
(* changes the buffer of no other call.                                    *)
ConcurrentEncodesIndependent ==
    /\ [](\A c \in Calls : Resolved(c) => promise[c].value = AloneResult(contivaData[c]))
    /\ [][\A c \in Calls : zipBuffer'[c] # zipBuffer[c] =>
              /\ pending[c] # <<>>
              /\ zipBuffer'[c] = zipBuffer[c] \o Head(pending[c])
              /\ \A k \in Calls \ {c} : zipBuffer'[k] = zipBuffer[k]]_vars

(* C15 witness: a call has resolved while the call on another payload is   *)
(* in the middle of its chunks.                                            *)
ConcurrentEncodesIndependentWitness ==
    \E c1, c2 \in Calls :
        /\ Resolved(c1)
        /\ contivaData[c1] # contivaData[c2]
        /\ encPc[c2] = "piping"
        /\ zipBuffer[c2] # <<>>
        /\ pending[c2] # <<>>

(* C19  Chunk accumulation order: zipBuffer is at every point the          *)
(* concatenation, in order of arrival, of the chunks delivered so far; no  *)
(* chunk is delivered to a call whose listeners are not attached; the      *)
(* promise is resolved in the 'end' callback from the buffer of all the    *)
(* chunks, and no chunk arrives after that.                                *)
ChunkAccumulationOrder ==
    /\ [](\A c \in Calls :
              /\ zipBuffer[c] = Flatten(delivered[c])
              /\ delivered[c] # <<>> => encPc[c] \in {"piping", "ended", "destroyed"}
              /\ Resolved(c) =>
                    /\ encPc[c] = "ended"
                    /\ pending[c] = <<>>
                    /\ promise[c].value = urlEncode(paddedBase64(Flatten(delivered[c]), now)))
    /\ [][\A c \in Calls :
              /\ encPc[c] = "ended" => delivered'[c] = delivered[c]
              /\ (~Resolved(c) /\ Resolved(c)') =>
                    (encPc[c] = "piping" /\ encPc'[c] = "ended" /\ pending[c] = <<>>)]_vars

(* C19 witness: a call resolved after its three chunks arrived. *)
ChunkAccumulationOrderWitness ==
    \E c \in Calls :
        /\ Resolved(c)
        /\ Len(delivered[c]) = 3
        /\ delivered[c][1] # delivered[c][2]

-----------------------------------------------------------------------------
Outcome(run) == <<run.failedAt, run.parsed>>

(* C3  Alphabet tolerance: the four wire forms of a payload (URL-safe or   *)
(* standard alphabet, with or without padding) give the same outcome from  *)
(* a deflate-variant decoder: the same document or the same failure.       *)
AlphabetTolerance ==
    \A d \in Decoders : \A f1, f2 \in WireForms :
        (Sent(d, f1) /\ Sent(d, f2))
            => Outcome(groovyDec[<<d, f1>>]) = Outcome(groovyDec[<<d, f2>>])

(* C3 witness: decodeGroovyString has decoded all four forms of a document *)
(* whose base64 text has a '+' or '/' and padding, and returned it.        *)
AlphabetToleranceWitness ==
    /\ \A f \in WireForms : Sent("decodeGroovyString", f)
    /\ doc \in GroovyDocs
    /\ groovyDec[<<"decodeGroovyString", "urlSafeUnpadded">>].parsed = doc
    /\ groovyDec[<<"decodeGroovyString", "urlSafeUnpadded">>].failedAt = "none"
    /\ groovyDec[<<"decodeGroovyString", "urlSafeUnpadded">>].input
           # groovyDec[<<"decodeGroovyString", "standardUnpadded">>].input
    /\ groovyDec[<<"decodeGroovyString", "urlSafeUnpadded">>].input
           # groovyDec[<<"decodeGroovyString", "urlSafePadded">>].input

(* C10  Deflate-variant malformed base64: a decoder given a string whose   *)
(* base64 text has a length of 1 modulo 4, or a character outside the      *)
(* alphabet, fails at the base64 stage.                                    *)
MalformedBase64Rejected ==
    \A d \in Decoders : \A f \in MalformedForms :
        Sent(d, f) => groovyDec[<<d, f>>].failedAt = "base64"

(* C11  No silent truncation on inflate: a deflate-variant decoder that    *)
(* goes on to the UTF-8 and JSON stages does so with the complete          *)
(* decompressed byte sequence of its input, never with a prefix of it      *)
(* (such as its first 10240 bytes); otherwise it fails with a size error.  *)
NoSilentInflateTruncation ==
    \A d \in Decoders : \A f \in GroovyForms :
        LET run == groovyDec[<<d, f>>]
        IN  (Sent(d, f) /\ inflateRaw(run.buffer).ok) =>
                \/ run.failedAt = "size"
                \/ /\ run.failedAt \in {"none", "json"}
                   /\ run.decompressed = inflateRaw(run.buffer).val

(* C21  The two deflate-variant decoders agree: on every input string     *)
(* decodeGroovyString and decodeGroovyData both fail or both return the    *)
(* same document, malformed base64 and documents of more than 10240 bytes  *)
(* included.                                                               *)
DecodersAgree ==
    \A f \in GroovyForms :
        LET node == groovyDec[<<"decodeGroovyString", f>>]
            groovy == groovyDec[<<"decodeGroovyData", f>>]
        IN  (node.ran /\ groovy.ran) =>
                /\ node.input = groovy.input
                /\ (node.failedAt = "none") = (groovy.failedAt = "none")
                /\ node.parsed = groovy.parsed

IsValidUtf8(bs) ==
    \A i \in 1..Len(bs) :
        \/ bs[i] < 128
        \/ bs[i] \in 194..223 /\ i < Len(bs) /\ bs[i + 1] \in 128..191
        \/ bs[i] \in 128..191 /\ i > 1 /\ bs[i - 1] \in 194..223

(* C12  Invalid UTF-8 is an error: a deflate-variant decoder whose         *)
(* inflated bytes are not valid UTF-8 fails at the UTF-8 stage; it does    *)
(* not go on to JSON parsing and return a document.                        *)
InvalidUtf8Rejected ==
    \A d \in Decoders : \A f \in GroovyForms :
        LET run == groovyDec[<<d, f>>]
        IN  (Sent(d, f) /\ run.decompressed # <<>> /\ ~IsValidUtf8(run.decompressed))
                => (run.failedAt = "utf8" /\ run.parsed = NoPayload)

-----------------------------------------------------------------------------
(* C4  Padding arithmetic: for a string of length L the count              *)
(* need = (4 - (L % 4)) % 4 is between 0 and 3 and L + need is a multiple  *)
(* of 4, so the padded string has a length that is a multiple of 4.        *)
PaddingArithmetic ==
    normOut.ran =>
        /\ normOut.paddingNeeded \in 0..3
        /\ (Len(normIn) + normOut.paddingNeeded) % 4 = 0
        /\ Len(normOut.once) = Len(normIn) + normOut.paddingNeeded
        /\ \A i \in (Len(normIn) + 1)..Len(normOut.once) : normOut.once[i] = "="

(* C4 witness: a string whose length is not a multiple of 4 was padded. *)
PaddingArithmeticWitness ==
    /\ normOut.ran
    /\ Len(normIn) % 4 = 1
    /\ normOut.paddingNeeded = 3

(* C5  Normalizer idempotence: the conversion leaves a string without '-'  *)
(* and '_' whose length is a multiple of 4 as it is, and converting twice  *)
(* gives what converting once gives.                                       *)
NormalizerIdempotent ==
    normOut.ran =>
        /\ normOut.twice = normOut.once
        /\ ((\A i \in 1..Len(normIn) : normIn[i] \notin {"-", "_"}) /\ Len(normIn) % 4 = 0)
               => normOut.once = normIn

(* C5 witness: a string with several '-' and '_' and no padding was        *)
(* converted, and the conversion changed it.                               *)
NormalizerIdempotentWitness ==
    /\ normOut.ran
    /\ Cardinality({i \in 1..Len(normIn) : normIn[i] = "-"}) >= 2
    /\ \E i \in 1..Len(normIn) : normIn[i] = "_"
    /\ Len(normIn) % 4 # 0
    /\ normOut.once # normIn

-----------------------------------------------------------------------------
(* The request is one of the two /debug routes and has reached             *)
(* decodeGroovyString with a string.                                       *)
DebugDecoded ==
    /\ request.pc = "done"
    /\ request.route \in {"GET /debug/:data", "POST /debug"}
    /\ request.run.ran
    /\ request.data.kind = "string"

(* C13  Deflate-variant decode begins with percent-decoding: a transport   *)
(* string that arrives as the URL path parameter or as the "data" member   *)
(* of a POST body is decoded as its percent-decoded form is, to the same   *)
(* document or the same failure.                                           *)
PercentDecodedFirst ==
    (DebugDecoded /\ decodeURIComponent(request.raw).ok) =>
        LET plain == decodeGroovyString(decodeURIComponent(request.raw).val)
        IN  /\ request.run.failedAt = plain.failedAt
            /\ request.run.parsed = plain.parsed

(* C16  Decode failure at the HTTP boundary: when decodeGroovyString       *)
(* throws in GET /debug/:data or POST /debug, the one response has status  *)
(* 400, success false and the message of the error, it carries no decoded  *)
(* data, and saveDecodedData was not called.                               *)
DecodeFailureAnswered ==
    (/\ request.pc = "done"
     /\ request.route \in {"GET /debug/:data", "POST /debug"}
     /\ request.run.ran
     /\ request.run.failedAt # "none") =>
        /\ Len(responses) = 1
        /\ responses[1].status = 400
        /\ ~responses[1].success
        /\ responses[1].error = thrownBy(request.run).message
        /\ responses[1].error # ""
        /\ ~responses[1].hasData
        /\ responses[1].data = NoPayload
        /\ responses[1].files = "absent"
        /\ saved = <<>>

(* C16 witness: a POST whose data inflates to text that is no JSON was     *)
(* answered, on a file system that would have taken the files.             *)
DecodeFailureAnsweredWitness ==
    /\ request.pc = "done"
    /\ request.route = "POST /debug"
    /\ request.run.failedAt = "json"
    /\ request.run.decompressed # <<>>
    /\ request.fs = "ok"
    /\ Len(responses) = 1
    /\ responses[1].status = 400

(* GET /contiva/:data has decoded the request's data to an object and      *)
(* called encodeContivaData.                                               *)
ContivaEncoding ==
    /\ request.route = "GET /contiva/:data"
    /\ request.pc \in {"awaitEncode", "awaitChrome", "done"}
    /\ request.run.failedAt = "none"
    /\ request.run.parsed.kind = "object"

(* C17  GET /contiva/:data converts the request's data: the payload given  *)
(* to encodeContivaData, and reported in the response, is                  *)
(* cpiHelperToContiva of the document the request's data decodes to.       *)
ContivaConvertsRequest ==
    ContivaEncoding =>
        /\ contivaData[1] = cpiHelperToContiva(request.run.parsed)
        /\ \A i \in 1..Len(responses) :
               responses[i].status = 200 =>
                   responses[i].contivaData = cpiHelperToContiva(request.run.parsed)

(* A /contiva request whose browser command has run. *)
ChromeReturned ==
    /\ request.route \in {"GET /contiva/:data", "GET /contiva/test"}
    /\ request.pc = "done"
    /\ chrome # <<>>

(* C18  openInChrome never rejects: its promise resolves when the browser  *)
(* command succeeds and when it fails, so the response of                  *)
(* GET /contiva/:data and of GET /contiva/test is never the "browser       *)
(* opening failed" one, and its "encoded" member comes from the string     *)
(* encodeContivaData resolved with.                                        *)
OpenInChromeNeverRejects ==
    ChromeReturned =>
        LET response == responses[Len(responses)]
        IN  /\ request.chromePromise = "resolved"
            /\ response.status = 200
            /\ ~response.warning
            /\ response.message \in {"Data converted and opened in Contiva IDE",
                                     "Test data encoded and opened in Contiva IDE"}
            /\ response.encodedLength = Len(promise[1].value)
            /\ response.encoded =
                   IF request.route = "GET /contiva/test" THEN promise[1].value
                   ELSE abbreviated(promise[1].value)

(* C18 witness: the browser command of a GET /contiva/:data request        *)
(* failed, and the request was answered; the string it was given differs   *)
(* from the string just encoded.                                           *)
OpenInChromeNeverRejectsWitness ==
    /\ ChromeReturned
    /\ request.route = "GET /contiva/:data"
    /\ request.execError
    /\ Len(responses) = 1
    /\ responses[1].status = 200
    /\ abbreviated(request.data.text) # abbreviated(promise[1].value)

(* GET /contiva/:data failed before the call of openInChrome. *)
ContivaFailed ==
    /\ request.route = "GET /contiva/:data"
    /\ \/ ~request.run.ran
       \/ request.run.failedAt # "none"
       \/ request.run.parsed.kind # "object"
       \/ promise[1].state = "rejected"

(* C20  Ordering in GET /contiva/:data: the browser is opened only after   *)
(* the data has been decoded, the decoded value has been found to be an    *)
(* object and the encode promise has resolved, and it is opened with the   *)
(* resolved string; after a failure before that no browser is opened; the  *)
(* request gets a response, and never a second one.                        *)
ContivaOrdering ==
    /\ [](request.route = "GET /contiva/:data" =>
             /\ chrome # <<>> =>
                    /\ request.run.ran
                    /\ request.run.failedAt = "none"
                    /\ request.run.parsed.kind = "object"
                    /\ promise[1].state = "resolved"
                    /\ chrome = <<promise[1].value>>
             /\ ContivaFailed => chrome = <<>>
             /\ Len(responses) <= 1
             /\ request.pc = "done" => Len(responses) = 1)
    /\ (request.route = "GET /contiva/:data") ~> (request.pc = "done" /\ Len(responses) = 1)

(* C20 witness: a GET /contiva/:data request was answered after the        *)
(* browser was opened with the string its encode call resolved with.       *)
ContivaOrderingWitness ==
    /\ request.route = "GET /contiva/:data"
    /\ request.pc = "done"
    /\ request.run.parsed = CpiHelperFull
    /\ promise[1].state = "resolved"
    /\ chrome = <<promise[1].value>>
    /\ Len(responses) = 1
    /\ responses[1].status = 200

(* A /debug request whose data was decoded has been answered. *)
DebugSaved ==
    /\ request.pc = "done"
    /\ request.route \in {"GET /debug/:data", "POST /debug"}
    /\ request.run.ran
    /\ request.run.failedAt = "none"
    /\ Len(responses) = 1
    /\ Len(saved) = 1

(* The names of the files a saveDecodedData call wrote. *)
WrittenFiles(saveResult) == {w[1] : w \in saveResult.written}

(* C22  Save result reporting: in GET /debug/:data and POST /debug a       *)
(* response with success true and a "files" member that is not null is     *)
(* sent only when debug.body, debug.header and debug.properties were all   *)
(* written for the request; a write that fails does not keep the other     *)
(* writes from being tried; and a save in which something failed is not    *)
(* reported with the paths of the files.                                   *)
SaveResultReporting ==
    DebugSaved =>
        /\ (responses[1].success /\ responses[1].files = "paths")
               => WrittenFiles(saved[1]) = Range(SavedFiles)
        /\ (request.fs # "mkdirFails" /\ request.run.parsed.kind = "object")
               => saved[1].attempted = SavedFiles
        /\ (request.fs # "ok" \/ ~saved[1].success) => responses[1].files # "paths"

=============================================================================
